---------------------------- MODULE Spec2Model ----------------------------
(***************************************************************************)
(* A model of TimersJS (src/timers.js): the registry timerPool, the five   *)
(* timer classes built on AbstractTimer, the host's setTimeout/setInterval *)
(* queue that fires their callback wrappers, and the registry-wide         *)
(* operations of the TimersJS object.                                      *)
(*                                                                         *)
(* JavaScript objects are numbered.  Objects 0..4 are the five objects     *)
(* that the file constructs while it sets up its prototype chains          *)
(* ("X.prototype = new Y()"); each of them runs the AbstractTimer          *)
(* constructor and therefore sits in timerPool.  Objects 5.. are the       *)
(* timers made through the factories.                                      *)
(***************************************************************************)
EXTENDS Integers, Sequences, FiniteSets, TLC

\* ------------------------------------------------------------- bounds
MaxTimers == 3          \* objects the factories may construct in one run
MaxArmed == 5           \* host primitives that may be armed at one time
MaxRepetitions == 2     \* largest "repetitions" argument of multi()
MaxInterval == 2        \* largest interval argument, in clock ticks
MaxCallbacksPool == 1   \* callbacksPool entries that are counted
MaxCalls == 3           \* calls the caller makes in one run

\* ------------------------------------------------------------- constants
NumPrototypes == 5      \* "timerPool.length - 5" of poolSize

\* Invocations of one timer's callback that are followed: one more than any
\* bounded timer is asked for.
MaxFired == MaxRepetitions + 1

Objs == 0 .. (NumPrototypes + MaxTimers - 1)
Intervals == 1 .. MaxInterval

VARIABLES
    timers,         \* object number -> the fields of that object
    timerPool,      \* the registry: a sequence of object numbers
    hostQueue,      \* armed host primitives, in the order they were armed
    nextObj,        \* the next object number a constructor will get
    callbacksPool,  \* number of entries in callbacksPool (counted to a bound)
    calls,          \* number of calls the caller has made
    pc              \* "idle", or the registry-wide loop that is executing

vars == <<timers, timerPool, hostQueue, nextObj, callbacksPool, calls, pc>>

\* The fields of an object.  cls is the prototype chain the object was built
\* with ("none": not constructed yet).  _timer is 0 for null and 1 for a
\* handle; which armed primitive the handle names is kept in hostQueue.
\* repetitions / totalRepetitions are the fields of a MultiTimer's
\* internalCallback closure, sub holds completionCallback.interval of a
\* OneShotTrigger (and is empty in every other object), hasCallback tells whether the closure's callbackFunction
\* is set.  The other fields are history: reps is the "repetitions"
\* argument, owner holds the trigger that owns a sub-timer, fired the number of
\* invocations of the caller's callback, args their arguments (MultiTimer),
\* done the number of invocations of the completion callback (MultiTimer);
\* killed: kill() has been called on the object; touched: the caller has
\* called a method on it, or a registry-wide operation has; abused: that
\* happened after kill() had been called on it; pausedAt: the values of
\* fired at which pause() was called on it; quiet: pause() has been called
\* on it and restart() has not been since; fnFired: the number of
\* invocations of a callback that the caller put in place of the first one.
\* _callback is "ctor" while the object holds what its constructor stored
\* (the caller's callback, or the closure that a MultiTimer, OneShotTimer or
\* OneShotTrigger wraps around it) and "fn" once callback(fn) has replaced
\* it; _timerFn is "null", or tells which of the two the wrapper's
\* timerCallback is.
Blank ==
    [cls |-> "none", id |-> 0, _timer |-> 0, _interval |-> 0,
     _callback |-> "ctor", _timerFn |-> "null",
     _running |-> FALSE, _paused |-> FALSE,
     pausedAt |-> {}, quiet |-> FALSE, fnFired |-> 0,
     repetitions |-> 0, totalRepetitions |-> 0, sub |-> {},
     hasCallback |-> FALSE,
     reps |-> 0, owner |-> {}, fired |-> 0, args |-> << >>, done |-> 0,
     killed |-> FALSE, touched |-> FALSE, abused |-> FALSE]

\* ------------------------------------------------------------- helpers
Range(s) == {s[i] : i \in 1 .. Len(s)}

RemoveAt(s, i) == SubSeq(s, 1, i - 1) \o SubSeq(s, i + 1, Len(s))

\* Array.prototype.splice(start, 1) on a 0-based start
Splice1(s, start) == IF start < Len(s) THEN RemoveAt(s, start + 1) ELSE s

\* The state an operation works on, as one record.
World ==
    [t |-> timers, pool |-> timerPool, q |-> hostQueue,
     no |-> nextObj, cbp |-> callbacksPool]

\* ------------------------------------------------------------- registry
addTimerToPool(W, o) ==
    [W EXCEPT !.pool = Append(@, o), !.t[o].id = Len(W.pool)]

removeTimerFromPool(W, id) == [W EXCEPT !.pool = Splice1(@, id)]

\* TimersJS.cleanupCallback: callbacksPool.push(cb).  Nothing reads the
\* entries, so only their number is kept, and only up to MaxCallbacksPool.
cleanupCallback(W) ==
    [W EXCEPT !.cbp = IF @ < MaxCallbacksPool THEN @ + 1 ELSE @]

poolSize == Len(timerPool) - NumPrototypes

\* ------------------------------------------------------------- host
\* An entry of hostQueue is a primitive armed by setTimeout or setInterval:
\* the object whose callback wrapper it will call, the delay it was armed
\* with, the time left until it is due, whether its handle is the one that
\* the object's _timer field holds now, and the timerCallback of the wrapper
\* it was armed with.

\* global.clearTimeout(this.timer()) / global.clearInterval(this.timer()):
\* the primitive that o._timer names, if it is still armed, is disarmed.
clearHandle(W, o) ==
    [W EXCEPT !.q = SelectSeq(@, LAMBDA e : ~(e.obj = o /\ e.held))]

\* this._timer = null
forget(W, o) ==
    [W EXCEPT !.t[o]._timer = 0,
              !.q = [i \in 1 .. Len(@) |->
                        IF @[i].obj = o THEN [@[i] EXCEPT !.held = FALSE] ELSE @[i]]]

\* AbstractTimer.prototype.callback() without an argument: the wrapper is
\* built, around the current _callback, unless there is one already.
callback(W, o) ==
    IF W.t[o]._timerFn = "null"
    THEN [W EXCEPT !.t[o]._timerFn = W.t[o]._callback]
    ELSE W

\* AbstractTimer.prototype.interval() without an argument
getInterval(W, o) == W.t[o]._interval

\* this.timer(global.setTimeout(this.callback(), this.interval())), or the
\* same with setInterval: a fresh primitive, whose handle replaces the one
\* in _timer.
arm(W, o, periodic) ==
    LET W0 == callback(W, o)
        e  == [obj |-> o, periodic |-> periodic, ivl |-> getInterval(W0, o),
               left |-> getInterval(W0, o), held |-> TRUE,
               fn |-> W0.t[o]._timerFn]
        W1 == forget(W0, o)
    IN  [W1 EXCEPT !.q = Append(@, e), !.t[o]._timer = 1]

\* ------------------------------------------------------------- methods
\* Which function a method call on object o reaches is decided by o's
\* prototype chain.  Timer, MultiTimer, OneShotTimer and OneShotTrigger all
\* reach Timer.prototype.cancel and Timer.prototype.kill; only the last two
\* reach OneShotTimer.prototype.restart.
TimerFamily == {"Timer", "MultiTimer", "OneShotTimer", "OneShotTrigger"}

\* AbstractTimer.prototype.isRunning (no class overrides it)
isRunning(W, o) == W.t[o]._running

\* AbstractTimer.prototype.cancel, called on o
AbstractTimer_cancel(W, o) ==
    [forget(W, o) EXCEPT !.t[o]._running = FALSE]

\* Timer.prototype.cancel: the host primitive is cleared, and then
\* "Timer.base.cancel()" runs AbstractTimer.prototype.cancel with
\* this = AbstractTimer.prototype, so o._timer and o._running are not
\* written.  (The _timer and _running it writes on AbstractTimer.prototype
\* are read by nothing: every constructed object has those fields itself.)
Timer_cancel(W, o) == clearHandle(W, o)

\* IntervalTimer.prototype.cancel
IntervalTimer_cancel(W, o) ==
    AbstractTimer_cancel(clearHandle(W, o), o)

cancel(W, o) ==
    CASE W.t[o].cls \in TimerFamily -> Timer_cancel(W, o)
      [] W.t[o].cls = "IntervalTimer" -> IntervalTimer_cancel(W, o)
      [] OTHER -> AbstractTimer_cancel(W, o)

\* A pause() that starts the repetitions of a MultiTimer over.
pause_LosesProgress(W, o) ==
    [cancel(W, o) EXCEPT !.t[o]._paused = TRUE,
                         !.t[o].quiet = TRUE,
                         !.t[o].pausedAt = @ \cup {W.t[o].fired},
                         !.t[o].repetitions = W.t[o].reps,
                         !.t[o].totalRepetitions = 0]

\* AbstractTimer.prototype.pause (no class overrides it)
pause(W, o) ==
    [cancel(W, o) EXCEPT !.t[o]._paused = TRUE,
                         !.t[o].quiet = TRUE,
                         !.t[o].pausedAt = @ \cup {W.t[o].fired}]

\* AbstractTimer.prototype.restart
AbstractTimer_restart(W, o) ==
    [AbstractTimer_cancel(W, o) EXCEPT !.t[o]._running = TRUE,
                                       !.t[o]._paused = FALSE]

\* Timer.prototype.restart: a setTimeout and nothing else
Timer_restart(W, o) == arm(W, o, FALSE)

\* IntervalTimer.prototype.restart
IntervalTimer_restart(W, o) == arm(IntervalTimer_cancel(W, o), o, TRUE)

\* OneShotTimer.prototype.restart
OneShotTimer_restart(W, o) ==
    IF ~W.t[o]._paused /\ W.t[o]._running THEN W ELSE Timer_restart(W, o)

restart(W, o) ==
    LET W1 == [W EXCEPT !.t[o].quiet = FALSE]
    IN  CASE W.t[o].cls \in {"Timer", "MultiTimer"} -> Timer_restart(W1, o)
          [] W.t[o].cls \in {"OneShotTimer", "OneShotTrigger"} -> OneShotTimer_restart(W1, o)
          [] W.t[o].cls = "IntervalTimer" -> IntervalTimer_restart(W1, o)
          [] OTHER -> AbstractTimer_restart(W1, o)

\* AbstractTimer.prototype.callback(fn) (no class overrides it)
setCallback(W, o) ==
    LET W1 == [W EXCEPT !.t[o]._callback = "fn", !.t[o]._timerFn = "null"]
    IN  IF isRunning(W1, o) THEN restart(W1, o) ELSE W1

\* AbstractTimer.prototype.interval(v) (no class overrides it)
setInterval(W, o, v) == [cancel(W, o) EXCEPT !.t[o]._interval = v]

\* AbstractTimer.prototype.kill, called on o: cleanupCallback, this.cancel()
\* (dispatched on o), removeTimerFromPool(this), this._timer = null.
AbstractTimer_kill(W, o) ==
    LET W1 == cancel(cleanupCallback(W), o)
        W2 == removeTimerFromPool(W1, W1.t[o].id)
    IN  forget(W2, o)

\* Timer.prototype.kill: this.cancel(), then "Timer.base.kill()", which
\* runs AbstractTimer.prototype.kill with this = AbstractTimer.prototype.
\* That object has no _timerFn and no id: cleanupCallback(undefined) pushes
\* one entry, and removeTimerFromPool does timerPool.splice(undefined, 1),
\* which removes the element at index 0.
Timer_kill(W, o) ==
    removeTimerFromPool(cleanupCallback(Timer_cancel(W, o)), 0)

\* IntervalTimer.prototype.kill
IntervalTimer_kill(W, o) == AbstractTimer_kill(IntervalTimer_cancel(W, o), o)

kill(W, o) ==
    LET W1 == [W EXCEPT !.t[o].killed = TRUE]
    IN  CASE W.t[o].cls \in TimerFamily -> Timer_kill(W1, o)
          [] W.t[o].cls = "IntervalTimer" -> IntervalTimer_kill(W1, o)
          [] OTHER -> AbstractTimer_kill(W1, o)

\* ------------------------------------------------------------- constructors
\* AbstractTimer(interval, callback), reached through every class's
\* constructor: the fields, the registry slot, this.restart().
AbstractTimer(W, o, cls, interval, hasCallback) ==
    LET W1 == [W EXCEPT !.t[o] = [Blank EXCEPT !.cls = cls,
                                               !._interval = interval,
                                               !.hasCallback = hasCallback],
                        !.no = o + 1]
    IN  restart(addTimerToPool(W1, o), o)

MultiTimer(W, o, interval, repetitions) ==
    LET W1 == AbstractTimer(W, o, "MultiTimer", interval, TRUE)
    IN  [W1 EXCEPT !.t[o].repetitions = repetitions, !.t[o].reps = repetitions]

\* OneShotTrigger: the IntervalTimer is made first, then the OneShotTimer.
OneShotTrigger(W, o, interval, triggerInterval) ==
    LET W1 == AbstractTimer(W, o, "IntervalTimer", triggerInterval, TRUE)
        W2 == AbstractTimer(W1, o + 1, "OneShotTrigger", interval, TRUE)
    IN  [W2 EXCEPT !.t[o].owner = {o + 1}, !.t[o + 1].sub = {o}]

\* The state of the script once it has been loaded: the five prototype
\* objects.  Timer.prototype and IntervalTimer.prototype are AbstractTimers;
\* MultiTimer.prototype and OneShotTimer.prototype are Timers, and
\* OneShotTrigger.prototype is a OneShotTimer, all built with undefined
\* arguments (interval undefined: the host takes it as 0).
Loaded ==
    LET W0 == [t |-> [o \in Objs |-> Blank], pool |-> << >>, q |-> << >>,
               no |-> 0, cbp |-> 0]
        W1 == AbstractTimer(W0, 0, "AbstractTimer", 0, FALSE)
        W2 == AbstractTimer(W1, 1, "AbstractTimer", 0, FALSE)
        W3 == AbstractTimer(W2, 2, "Timer", 0, FALSE)
        W4 == AbstractTimer(W3, 3, "Timer", 0, FALSE)
    IN  AbstractTimer(W4, 4, "OneShotTimer", 0, FALSE)


\* ------------------------------------------------------------- callbacks
\* The caller's callback is invoked (with this = o).
invoke(W, o) == [W EXCEPT !.t[o].fired = @ + 1]

\* The callback that the caller passed to callback(fn) is invoked.
invokeFn(W, o) == [W EXCEPT !.t[o].fnFired = @ + 1]

\* The test with ">=" where the code has ">".
moreRepetitions_OffByOne(repetitions) == repetitions >= 0

\* "aC.repetitions-- > 0" of MultiTimer's internalCallback
moreRepetitions(repetitions) == repetitions > 0

\* MultiTimer's internalCallback, with this = o
internalCallback(W, o) ==
    LET r  == W.t[o].repetitions
        W1 == [W EXCEPT !.t[o].repetitions = r - 1]
    IN  IF moreRepetitions(r)
        THEN LET W2 == [invoke(W1, o) EXCEPT
                            !.t[o].args = Append(@, W1.t[o].totalRepetitions)]
                 W3 == [W2 EXCEPT !.t[o].totalRepetitions = @ + 1]
             IN  restart(W3, o)
        ELSE LET W2 == [W1 EXCEPT !.t[o].done = @ + 1]
             IN  cleanupCallback(kill(W2, o))

\* OneShotTrigger's completionCallback, with this = o
completionCallback(W, o) ==
    LET interval == CHOOSE s \in W.t[o].sub : TRUE
    IN  cleanupCallback(invoke(kill(W, interval), o))

\* OneShotTimer's innerCallback, with this = o.  Its callbackFunction is the
\* caller's callback (OneShotTimer) or completionCallback (OneShotTrigger);
\* OneShotTrigger.prototype was built with none.
innerCallback(W, o) ==
    IF ~W.t[o].hasCallback THEN W
    ELSE LET W1 == IF W.t[o].cls = "OneShotTrigger"
                   THEN completionCallback(W, o)
                   ELSE invoke(W, o)
         IN  cleanupCallback(kill(W1, o))

\* The wrapper built by AbstractTimer.prototype.callback(): it calls its
\* timerCallback cb, when there is one, with this = o.
timerFn(W, o, cb) ==
    CASE cb = "fn" -> invokeFn(W, o)
      [] W.t[o].cls = "MultiTimer" -> internalCallback(W, o)
      [] W.t[o].cls \in {"OneShotTimer", "OneShotTrigger"} -> innerCallback(W, o)
      [] OTHER -> IF W.t[o].hasCallback THEN invoke(W, o) ELSE W

\* ------------------------------------------------------------- host queue
\* The armed primitive the host fires next: of those that are due, the one
\* armed first.
Due(q) == {i \in 1 .. Len(q) : q[i].left = 0}

NextDue(q) == CHOOSE i \in Due(q) : \A j \in Due(q) : i <= j

\* The host fires entry i: a timeout is spent, an interval is armed again
\* for one more period; then the wrapper runs.
fire(W, i) ==
    LET e  == W.q[i]
        q1 == RemoveAt(W.q, i)
        q2 == IF e.periodic THEN Append(q1, [e EXCEPT !.left = e.ivl]) ELSE q1
    IN  timerFn([W EXCEPT !.q = q2], e.obj, e.fn)

\* ------------------------------------------------------------- actions
Commit(W) ==
    /\ Len(W.q) <= MaxArmed
    /\ \A o \in Objs : W.t[o].fired <= MaxFired /\ W.t[o].fnFired <= MaxFired
    /\ timers' = W.t
    /\ timerPool' = W.pool
    /\ hostQueue' = W.q
    /\ nextObj' = W.no
    /\ callbacksPool' = W.cbp

Idle == pc = "idle"

\* The caller makes a call of the TimersJS interface.
Call == Idle /\ calls < MaxCalls /\ calls' = calls + 1

\* The timers the caller holds: the ones the factories returned.
Held == {o \in Objs : o >= NumPrototypes /\ timers[o].cls # "none"
                      /\ timers[o].owner = {}}

Room(n) == nextObj + n - 1 <= NumPrototypes + MaxTimers - 1

\* TimersJS.timer
timer ==
    /\ Call /\ Room(1)
    /\ \E i \in Intervals : Commit(AbstractTimer(World, nextObj, "Timer", i, TRUE))
    /\ UNCHANGED pc

\* TimersJS.repeater
repeater ==
    /\ Call /\ Room(1)
    /\ \E i \in Intervals :
           Commit(AbstractTimer(World, nextObj, "IntervalTimer", i, TRUE))
    /\ UNCHANGED pc

\* TimersJS.multi
multi ==
    /\ Call /\ Room(1)
    /\ \E i \in Intervals, n \in 0 .. MaxRepetitions :
           Commit(MultiTimer(World, nextObj, i, n))
    /\ UNCHANGED pc

\* TimersJS.oneShot
oneShot ==
    /\ Call /\ Room(1)
    /\ \E i \in Intervals :
           Commit(AbstractTimer(World, nextObj, "OneShotTimer", i, TRUE))
    /\ UNCHANGED pc

\* TimersJS.trigger
trigger ==
    /\ Call /\ Room(2)
    /\ \E i \in Intervals, ti \in Intervals :
           Commit(OneShotTrigger(World, nextObj, i, ti))
    /\ UNCHANGED pc

\* History: the objects of S are operated on from outside their callbacks.
Touch(W, S) ==
    [W EXCEPT !.t = [o \in Objs |->
        IF o \in S
        THEN [@[o] EXCEPT !.touched = TRUE, !.abused = @ \/ W.t[o].killed]
        ELSE @[o]]]

\* The caller's calls on a timer it holds
Pause(o) == Call /\ Commit(pause(Touch(World, {o}), o)) /\ UNCHANGED pc

Restart(o) == Call /\ Commit(restart(Touch(World, {o}), o)) /\ UNCHANGED pc

Cancel(o) == Call /\ Commit(cancel(Touch(World, {o}), o)) /\ UNCHANGED pc

Kill(o) == Call /\ Commit(kill(Touch(World, {o}), o)) /\ UNCHANGED pc

SetCallback(o) == Call /\ Commit(setCallback(Touch(World, {o}), o)) /\ UNCHANGED pc

SetInterval(o) ==
    /\ Call
    /\ \E v \in Intervals : Commit(setInterval(Touch(World, {o}), o, v))
    /\ UNCHANGED pc

\* "for (var i = 0; i < timerPool.length; i++) timerPool[i].pause()", from
\* the registry's i-th entry on.
RECURSIVE pauseFrom(_, _)
pauseFrom(W, i) ==
    IF i > Len(W.pool) THEN W ELSE pauseFrom(pause(W, W.pool[i]), i + 1)

\* TimersJS.pauseAllTimers
pauseAllTimers ==
    Call /\ Commit(pauseFrom(Touch(World, Range(timerPool)), 1)) /\ UNCHANGED pc

\* The same loop with restart()
RECURSIVE restartFrom(_, _)
restartFrom(W, i) ==
    IF i > Len(W.pool) THEN W ELSE restartFrom(restart(W, W.pool[i]), i + 1)

\* TimersJS.restartAllTimers
restartAllTimers ==
    Call /\ Commit(restartFrom(Touch(World, Range(timerPool)), 1)) /\ UNCHANGED pc

\* TimersJS.cancelAllTimers: "while (timerPool.length > 0)
\* timerPool[0].cancel()".  The call is one step and every evaluation of the
\* loop condition, with the iteration or the return that follows it, is
\* one more; nothing else runs until the loop has returned.
cancelAllTimers ==
    /\ Call /\ pc' = "cancelAll"
    /\ UNCHANGED <<timers, timerPool, hostQueue, nextObj, callbacksPool>>

cancelAllLoop ==
    /\ pc = "cancelAll"
    /\ IF Len(timerPool) > 0
       THEN Commit(cancel(Touch(World, {timerPool[1]}), timerPool[1])) /\ UNCHANGED pc
       ELSE /\ pc' = "idle"
            /\ UNCHANGED <<timers, timerPool, hostQueue, nextObj, callbacksPool>>
    /\ UNCHANGED calls

\* TimersJS.killAllTimers: the same loop with kill()
killAllTimers ==
    /\ Call /\ pc' = "killAll"
    /\ UNCHANGED <<timers, timerPool, hostQueue, nextObj, callbacksPool>>

killAllLoop ==
    /\ pc = "killAll"
    /\ IF Len(timerPool) > 0
       THEN Commit(kill(Touch(World, {timerPool[1]}), timerPool[1])) /\ UNCHANGED pc
       ELSE /\ pc' = "idle"
            /\ UNCHANGED <<timers, timerPool, hostQueue, nextObj, callbacksPool>>
    /\ UNCHANGED calls

\* The host fires the next armed primitive that is due.
Fire ==
    /\ Idle /\ Due(hostQueue) # {}
    /\ Commit(fire(World, NextDue(hostQueue)))
    /\ UNCHANGED <<calls, pc>>

\* One unit of time passes.  The host fires what is due before its clock
\* moves on.
Tick ==
    /\ Idle /\ Len(hostQueue) > 0 /\ Due(hostQueue) = {}
    /\ hostQueue' = [i \in 1 .. Len(hostQueue) |->
                        [hostQueue[i] EXCEPT !.left = @ - 1]]
    /\ UNCHANGED <<timers, timerPool, nextObj, callbacksPool, calls, pc>>

\* The sweep that the script arms with setInterval(..., 500): it empties
\* callbacksPool.
Sweep ==
    /\ Idle /\ callbacksPool > 0 /\ callbacksPool' = 0
    /\ UNCHANGED <<timers, timerPool, hostQueue, nextObj, calls, pc>>

Init ==
    /\ timers = Loaded.t
    /\ timerPool = Loaded.pool
    /\ hostQueue = Loaded.q
    /\ nextObj = Loaded.no
    /\ callbacksPool = Loaded.cbp
    /\ calls = 0
    /\ pc = "idle"

Next ==
    \/ timer
    \/ repeater
    \/ multi
    \/ oneShot
    \/ trigger
    \/ \E o \in Held : Pause(o)
    \/ \E o \in Held : Restart(o)
    \/ \E o \in Held : Cancel(o)
    \/ \E o \in Held : Kill(o)
    \/ \E o \in Held : SetCallback(o)
    \/ \E o \in Held : SetInterval(o)
    \/ pauseAllTimers
    \/ restartAllTimers
    \/ cancelAllTimers
    \/ cancelAllLoop
    \/ killAllTimers
    \/ killAllLoop
    \/ Fire
    \/ Tick
    \/ Sweep

Spec == Init /\ [][Next]_vars

\* The states that one call of a factory, any of them, leads to from W.
FirstMade(W) ==
    {AbstractTimer(W, W.no, c, i, TRUE) :
        c \in {"Timer", "IntervalTimer", "OneShotTimer"}, i \in Intervals}
    \cup {MultiTimer(W, W.no, i, n) :
              i \in Intervals, n \in 0 .. MaxRepetitions}
    \cup {OneShotTrigger(W, W.no, i, ti) :
              i \in Intervals, ti \in Intervals}

\* The caller makes its first timer; calls counts the calls after it.
first ==
    /\ Idle /\ nextObj = NumPrototypes /\ calls = 0
    /\ \E W \in FirstMade(World) : Commit(W)
    /\ UNCHANGED <<calls, pc>>

\* Making timers and killing them, with the host's events.
NextKill ==
    \/ first
    \/ timer
    \/ repeater
    \/ oneShot
    \/ \E o \in Held : Kill(o)
    \/ pauseAllTimers
    \/ killAllTimers
    \/ killAllLoop
    \/ Fire
    \/ Tick

SpecKill == Init /\ [][NextKill]_vars

\* Bounded-repetition timers alone, with the calls that pause and restart
\* them and the host's events.
NextMulti ==
    \/ multi
    \/ \E o \in Held : Pause(o)
    \/ \E o \in Held : Restart(o)
    \/ pauseAllTimers
    \/ restartAllTimers
    \/ Fire
    \/ Tick

SpecMulti == Init /\ [][NextMulti]_vars


\* ------------------------------------------------------------- properties
Made(c) == {o \in Objs : o >= NumPrototypes /\ timers[o].cls = c}

Registered(o) == o \in Range(timerPool)

Armed(o) == \E i \in 1 .. Len(hostQueue) : hostQueue[i].obj = o

\* The number of primitives in queue q that are armed for object o
Pending(q, o) == Cardinality({i \in 1 .. Len(q) : q[i].obj = o})

\* The sub-timer of trigger timer o
Sub(o) == CHOOSE s \in timers[o].sub : TRUE

\* <<0, 1, ..., n-1>>
Upto(n) == [i \in 1 .. n |-> i - 1]

\* C1: a bounded-repetition timer made with repetitions = N that nothing
\* but the host has operated on, once its completion callback has run, has
\* invoked the caller's callback exactly N times with the arguments
\* 0, ..., N-1, has invoked the completion callback exactly once, and has
\* then left the registry.
C1_RunsNTimesCompletesOnceAndLeaves ==
    \A o \in Made("MultiTimer") :
        (~timers[o].touched /\ timers[o].done > 0) =>
            /\ timers[o].fired = timers[o].reps
            /\ timers[o].args = Upto(timers[o].reps)
            /\ timers[o].done = 1
            /\ ~Registered(o)

\* The part of C1 that is about the callbacks alone.
C1_CallbacksOnly ==
    \A o \in Made("MultiTimer") :
        (~timers[o].touched /\ timers[o].done > 0) =>
            /\ timers[o].fired = timers[o].reps
            /\ timers[o].args = Upto(timers[o].reps)
            /\ timers[o].done = 1

\* C2: whatever the caller and the host do, a bounded-repetition timer made
\* with repetitions = N has invoked the caller's callback at most N times,
\* and the k-th invocation (k = 1, 2, ...) was passed k-1.
C2_AtMostNInOrder ==
    \A o \in Made("MultiTimer") :
        /\ timers[o].fired <= timers[o].reps
        /\ timers[o].args = Upto(timers[o].fired)

\* A bounded-repetition timer with N >= 2 that the caller has operated on
\* has made all N invocations and has completed.
C2_Witness ==
    \E o \in Made("MultiTimer") :
        /\ timers[o].reps >= 2
        /\ timers[o].fired = timers[o].reps
        /\ timers[o].touched
        /\ timers[o].done >= 1

\* C3: the completion callback of a bounded-repetition timer is never
\* invoked a second time (the timer not having been operated on after it
\* was killed).
C3_CompletionAtMostOnce ==
    \A o \in Made("MultiTimer") :
        ~timers[o].abused => timers[o].done <= 1

\* C8: the caller's callback of a one-shot timer is invoked at most once
\* (the timer not having been operated on after it was killed).
C8_OneShotAtMostOnce ==
    \A o \in Made("OneShotTimer") :
        ~timers[o].abused => timers[o].fired <= 1


\* C4: when the caller's kill() on a timer that was not killed before
\* returns, that timer is no longer in the registry and the registry is
\* exactly one entry shorter.
C4_KillRemovesTheTimer ==
    [][\A o \in Objs :
          (calls' = calls + 1 /\ ~timers[o].killed /\ timers'[o].killed) =>
              /\ o \notin Range(timerPool')
              /\ Len(timerPool') = Len(timerPool) - 1]_vars

\* C5: a second kill() on a timer, called right after the first, leaves the
\* registry as it is.
C5_SecondKillChangesNothing ==
    [][\A o \in Held :
          (timers[o].killed /\ ~timers[o].abused /\ Kill(o)) =>
              timerPool' = timerPool]_vars

\* C6: killAllTimers() terminates with activeTimerCount() = 0: whenever its
\* loop condition is evaluated, either the registry is not empty and the
\* iteration that follows shortens it, or the registry is empty and
\* poolSize() is 0.  (kill() reads the registry and the object's id and
\* nothing else that an iteration changes, so an iteration that leaves the
\* registry as it is is repeated forever.)
C6_KillAllTerminatesAtZero ==
    pc = "killAll" =>
        IF Len(timerPool) > 0
        THEN Len(kill(World, timerPool[1]).pool) < Len(timerPool)
        ELSE poolSize = 0

\* C7: cancelAllTimers() terminates: whenever its loop condition is
\* evaluated with a registry that is not empty, the iteration that follows
\* brings the loop closer to its end (it shortens the registry, which is
\* all the loop condition reads).
C7_CancelAllTerminates ==
    (pc = "cancelAll" /\ Len(timerPool) > 0) =>
        Len(cancel(World, timerPool[1]).pool) < Len(timerPool)

\* C9: for a trigger timer (not operated on after it was killed), the step
\* in which its outer callback is invoked shortens the registry by exactly
\* 2, and once the outer callback has been invoked the trigger callback of
\* its sub-timer is not invoked again.
C9_TriggerCompletion ==
    [][\A o \in Made("OneShotTrigger") :
          ~timers[o].abused =>
              /\ (timers'[o].fired > timers[o].fired) =>
                     Len(timerPool') = Len(timerPool) - 2
              /\ (timers[o].fired > 0) =>
                     timers'[Sub(o)].fired = timers[Sub(o)].fired]_vars

\* C10: once kill() has been called on a trigger timer whose outer callback
\* has not been invoked, its sub-timer is out of the registry and has no
\* armed primitive left to invoke the trigger callback.
C10_SubTimerDiesWithOwner ==
    \A o \in Made("OneShotTrigger") :
        (timers[o].killed /\ timers[o].fired = 0) =>
            /\ ~Registered(Sub(o))
            /\ ~Armed(Sub(o))

\* C11: isRunning() reflects the Running state of every timer the factories
\* make: it returns true when the factory that constructs the timer returns
\* and when the caller's restart() on a timer that was not killed returns,
\* and false when the caller's pause(), cancel() or kill() returns.
C11_IsRunningReflectsRunning ==
    [][\A o \in Objs : o >= NumPrototypes =>
          /\ (timers[o].cls = "none" /\ timers'[o].cls # "none") =>
                 isRunning([t |-> timers'], o)
          /\ (o \in Held /\ ~timers[o].killed /\ Restart(o)) =>
                 isRunning([t |-> timers'], o)
          /\ (o \in Held /\ (Pause(o) \/ Cancel(o) \/ Kill(o))) =>
                 ~isRunning([t |-> timers'], o)]_vars

\* C12: pause() followed by restart() re-arms a delay timer with the full
\* interval.  Whenever the callback of a delay timer is invoked (the timer
\* not having been operated on after it was killed), pause() has not been
\* called on it since its last restart(), and, if it was ever paused, the
\* primitive that its last restart() armed with the full interval is not
\* still waiting.
C12_PauseThenRestartFullInterval ==
    [][\A o \in Made("Timer") :
          (~timers[o].abused /\ timers'[o].fired > timers[o].fired) =>
              /\ ~timers[o].quiet
              /\ timers[o].pausedAt # {} =>
                     \A i \in 1 .. Len(hostQueue) :
                         (hostQueue[i].obj = o /\ hostQueue[i].held) =>
                             hostQueue[i].left = 0]_vars

\* C13: callback(fn) on a running timer restarts it with the new callback.
\* When the caller's callback(fn) returns on a timer that was constructed,
\* has not been operated on or killed since and is still armed, the timer is
\* armed, and every primitive armed for it will invoke fn (so the next fire
\* invokes fn, and the previous callback is not invoked again).
C13_SetCallbackRestartsWithNew ==
    [][\A o \in Held :
          (/\ ~timers[o].touched /\ ~timers[o].killed /\ Armed(o)
           /\ SetCallback(o)) =>
              /\ \E i \in 1 .. Len(hostQueue') : hostQueue'[i].obj = o
              /\ \A i \in 1 .. Len(hostQueue') :
                     hostQueue'[i].obj = o => hostQueue'[i].fn = "fn"]_vars

\* C14: interval(v) cancels the timer, whatever its variant.  When the
\* caller's interval(v) returns on a timer that was not killed, no primitive
\* is armed for the timer (so its callback is not invoked until it is
\* restarted), and when the caller's restart() returns on such a timer, the
\* primitive it has armed waits for the timer's current interval.
C14_SetIntervalCancels ==
    [][\A o \in Held : ~timers[o].killed =>
          /\ SetInterval(o) =>
                 \A i \in 1 .. Len(hostQueue') : hostQueue'[i].obj # o
          /\ Restart(o) =>
                 \E i \in 1 .. Len(hostQueue') :
                     /\ hostQueue'[i].obj = o /\ hostQueue'[i].held
                     /\ hostQueue'[i].ivl = timers[o]._interval
                     /\ hostQueue'[i].left = timers[o]._interval]_vars

\* C15: Killed is terminal.  The caller's pause(), restart(), cancel() or
\* kill() on a timer on which kill() has been called arms no primitive for
\* it and leaves the registry as it is.
C15_KilledIsTerminal ==
    [][\A o \in Held :
          (/\ timers[o].killed
           /\ Pause(o) \/ Restart(o) \/ Cancel(o) \/ Kill(o)) =>
              /\ Pending(hostQueue', o) <= Pending(hostQueue, o)
              /\ timerPool' = timerPool]_vars

\* C16: restart() always cancels first: in every reachable state every timer
\* the factories have made has at most one primitive armed.
C16_AtMostOneArmed ==
    \A o \in Objs :
        (o >= NumPrototypes /\ timers[o].cls # "none") => Pending(hostQueue, o) <= 1

\* C17: no two live timers (made by the factories, kill() not called on
\* them) have the same id.
C17_LiveIdsDistinct ==
    \A a \in Objs, b \in Objs :
        (/\ a >= NumPrototypes /\ b >= NumPrototypes /\ a # b
         /\ timers[a].cls # "none" /\ timers[b].cls # "none"
         /\ ~timers[a].killed /\ ~timers[b].killed) =>
            timers[a].id # timers[b].id

\* C18: a late invocation is harmless.  When the host invokes the callback
\* wrapper of a timer on which kill() has been called (and which has not
\* been operated on since), the registry is left as it is.
C18_LateInvocationHarmless ==
    [][(/\ Fire
        /\ timers[hostQueue[NextDue(hostQueue)].obj].killed
        /\ ~timers[hostQueue[NextDue(hostQueue)].obj].abused) =>
            timerPool' = timerPool]_vars

\* The part of C19 that holds whatever else the caller does: for a timer
\* made with repetitions = N on which pause() has been called, the caller's
\* callback has been invoked at most N times, the k-th invocation with k-1
\* (so after a pause at k invocations the indices go on with k), and the
\* completion callback has run only after all N.
C19_ProgressKept ==
    \A o \in Made("MultiTimer") :
        timers[o].pausedAt # {} =>
            /\ timers[o].fired <= timers[o].reps
            /\ timers[o].args = Upto(timers[o].fired)
            /\ timers[o].totalRepetitions = timers[o].fired
            /\ timers[o].done > 0 => timers[o].fired = timers[o].reps

\* C19: pausing a bounded-repetition timer preserves its progress.  When
\* such timers are only paused and restarted: the progress of a timer that
\* was paused is kept as above, and until its completion callback has run, a
\* timer that is not waiting for a restart() has a primitive armed, whose
\* fire is the next of the remaining iterations or the completion.
C19_PausePreservesProgress ==
    /\ C19_ProgressKept
    /\ \A o \in Made("MultiTimer") :
           (timers[o].pausedAt # {} /\ timers[o].done = 0 /\ ~timers[o].quiet)
               => Armed(o)

\* A timer made with repetitions = 2 was paused after its first invocation
\* and restarted, has made its second invocation and has completed once.
C19_Witness ==
    \E o \in Made("MultiTimer") :
        /\ timers[o].reps = MaxRepetitions
        /\ timers[o].pausedAt = {1}
        /\ ~timers[o].quiet
        /\ timers[o].args = Upto(MaxRepetitions)
        /\ timers[o].done = 1

\* C20: killing one timer affects only that timer.  When the caller's
\* kill() on a live timer A returns, every other live timer B that A does
\* not own and that was in the registry is still in the registry (where
\* killAllTimers() and pauseAllTimers() find it) and has the primitives
\* armed that it had.
C20_KillAffectsOnlyThatTimer ==
    [][\A A \in Held, B \in Objs :
          (/\ ~timers[A].killed /\ Kill(A)
           /\ B >= NumPrototypes /\ B # A /\ B \notin timers[A].sub
           /\ timers[B].cls # "none" /\ ~timers[B].killed /\ Registered(B)) =>
              /\ B \in Range(timerPool')
              /\ Pending(hostQueue', B) = Pending(hostQueue, B)]_vars

=============================================================================
